---------------------------- MODULE Spec2Model ----------------------------
(***************************************************************************)
(* Model of DeductionConvertUNFIWest.py: the line scanner                  *)
(* parse_pdf_content (running location / customer context, item-row        *)
(* decomposition by a positional strategy and a regex fallback) and the    *)
(* group-by aggregation create_summary_tables.                             *)
(*                                                                         *)
(* Text is modelled as TLA+ strings, character by character: strip, split, *)
(* the regular expressions, int() and float() are computed on the          *)
(* characters.  A float is the exact decimal m * 10^(-e), normalised; the  *)
(* modelled inputs carry no exponent, inf or nan spellings.                *)
(***************************************************************************)
EXTENDS Integers, Sequences, FiniteSets, TLC

---------------------------------------------------------------------------
(* Characters and the str / re primitives the source uses.                 *)

WS == {" ", "\t"}
DIGIT == {"0", "1", "2", "3", "4", "5", "6", "7", "8", "9"}
UPPER == {"A", "B", "C", "D", "E", "F", "G", "H", "I", "J", "K", "L", "M",
          "N", "O", "P", "Q", "R", "S", "T", "U", "V", "W", "X", "Y", "Z"}
LOWER == {"a", "b", "c", "d", "e", "f", "g", "h", "i", "j", "k", "l", "m",
          "n", "o", "p", "q", "r", "s", "t", "u", "v", "w", "x", "y", "z"}
ALPHA == UPPER \cup LOWER

Ch(s, i) == SubSeq(s, i, i)

SetMin(S) == CHOOSE x \in S : \A y \in S : x <= y
SetMax(S) == CHOOSE x \in S : \A y \in S : x >= y

\* Last index of the maximal run of characters of class C starting at i
\* (i - 1 when the character at i is not in C).
RunEnd(s, i, C) ==
    LET bad == {j \in i..Len(s) : Ch(s, j) \notin C}
    IN  IF bad = {} THEN Len(s) ELSE SetMin(bad) - 1

\* str.strip(): leading and trailing whitespace removed.
strip(s) ==
    LET non == {j \in 1..Len(s) : Ch(s, j) \notin WS}
    IN  IF non = {} THEN "" ELSE SubSeq(s, SetMin(non), SetMax(non))

\* str.split(): the maximal runs of non-whitespace characters, in order.
RECURSIVE splitFrom(_, _)
splitFrom(s, i) ==
    LET non == {j \in i..Len(s) : Ch(s, j) \notin WS}
    IN  IF non = {} THEN << >>
        ELSE LET b == SetMin(non)
                 sp == {j \in b..Len(s) : Ch(s, j) \in WS}
                 e == IF sp = {} THEN Len(s) ELSE SetMin(sp) - 1
             IN  <<SubSeq(s, b, e)>> \o splitFrom(s, e + 1)

split(s) == splitFrom(s, 1)

\* " ".join(seq)
RECURSIVE join(_)
join(seq) ==
    IF seq = << >> THEN ""
    ELSE IF Len(seq) = 1 THEN seq[1]
    ELSE seq[1] \o " " \o join(Tail(seq))

startswith(s, pre) == Len(s) >= Len(pre) /\ SubSeq(s, 1, Len(pre)) = pre

\* Positions at which sub occurs in s.
Occurrences(s, sub) ==
    {p \in 1..(Len(s) - Len(sub) + 1) : SubSeq(s, p, p + Len(sub) - 1) = sub}

\* sub in s
contains(s, sub) == Occurrences(s, sub) # {}

\* s.index(sub) as a 1-based position (sub occurs in s at every call site).
index(s, sub) == SetMin(Occurrences(s, sub))

AllIn(s, C) == \A j \in 1..Len(s) : Ch(s, j) \in C

---------------------------------------------------------------------------
(* int() and float().                                                      *)

DigitVal(c) == CHOOSE n \in 0..9 : Ch("0123456789", n + 1) = c

RECURSIVE NatOf(_)
NatOf(s) ==
    IF s = "" THEN 0
    ELSE LET init == SubSeq(s, 1, Len(s) - 1)
             c == Ch(s, Len(s))
         IN  IF c = "_" THEN NatOf(init) ELSE NatOf(init) * 10 + DigitVal(c)

Unsigned(t) == IF t # "" /\ Ch(t, 1) \in {"+", "-"} THEN SubSeq(t, 2, Len(t)) ELSE t
Sign(t) == IF t # "" /\ Ch(t, 1) = "-" THEN -1 ELSE 1

\* A digit string in which single underscores may separate digits.
DigitString(b) ==
    /\ b # ""
    /\ AllIn(b, DIGIT \cup {"_"})
    /\ Ch(b, 1) \in DIGIT
    /\ Ch(b, Len(b)) \in DIGIT
    /\ ~contains(b, "__")

\* int(t): [status, val]; status "ValueError" when t is no integer literal.
int(t) ==
    IF DigitString(Unsigned(t))
    THEN [status |-> "ok", val |-> Sign(t) * NatOf(Unsigned(t))]
    ELSE [status |-> "ValueError", val |-> 0]

RECURSIVE Normalise(_)
Normalise(d) ==
    IF d.e > 0 /\ d.m % 10 = 0 THEN Normalise([m |-> d.m \div 10, e |-> d.e - 1])
    ELSE d

Zero == [m |-> 0, e |-> 0]

\* float(t) for the decimal spellings  D+ | D+ . D* | . D+  with a sign.
float(t) ==
    LET b == Unsigned(t)
        dots == Occurrences(b, ".")
    IN  IF dots = {} THEN
            IF DigitString(b)
            THEN [status |-> "ok", val |-> [m |-> Sign(t) * NatOf(b), e |-> 0]]
            ELSE [status |-> "ValueError", val |-> Zero]
        ELSE LET p == SetMin(dots)
                 ip == SubSeq(b, 1, p - 1)
                 fp == SubSeq(b, p + 1, Len(b))
             IN  IF /\ (ip = "" \/ DigitString(ip))
                    /\ (fp = "" \/ DigitString(fp))
                    /\ ~(ip = "" /\ fp = "")
                 THEN [status |-> "ok",
                       val |-> Normalise([m |-> Sign(t) * NatOf(ip \o fp),
                                          e |-> Len(fp) - Cardinality(Occurrences(fp, "_"))])]
                 ELSE [status |-> "ValueError", val |-> Zero]

---------------------------------------------------------------------------
(* Line classification.                                                    *)

\* re.match(r'^[A-Za-z]+\s+[A-Z]{2}$', line)
location_match(line) ==
    LET a == RunEnd(line, 1, ALPHA)
        w == RunEnd(line, a + 1, WS)
    IN  /\ a >= 1
        /\ w >= a + 1
        /\ Len(line) = w + 2
        /\ Ch(line, w + 1) \in UPPER
        /\ Ch(line, w + 2) \in UPPER

is_location_header(line) == location_match(line) /\ ~contains(line, "Customer")

\* re.search(r'Customer : \[(\d+)\]-(.*)', line): [found, id, name].
customer_match(line) ==
    LET lit == "Customer : ["
        hits == {p \in Occurrences(line, lit) :
                   LET d == RunEnd(line, p + Len(lit), DIGIT)
                   IN  /\ d >= p + Len(lit)
                       /\ d + 2 <= Len(line)
                       /\ SubSeq(line, d + 1, d + 2) = "]-"}
    IN  IF hits = {} THEN [found |-> FALSE, id |-> "", name |-> ""]
        ELSE LET p == SetMin(hits)
                 d == RunEnd(line, p + Len(lit), DIGIT)
             IN  [found |-> TRUE,
                  id |-> SubSeq(line, p + Len(lit), d),
                  name |-> SubSeq(line, d + 3, Len(line))]

---------------------------------------------------------------------------
(* Item-row decomposition.  Token indices are the source's 0-based ones.   *)

\* parts[k] of the source (0-based).
tok(parts, k) == parts[k + 1]

\* re.match(r'^\d{6,}$', t)
is_anchor(t) == Len(t) >= 6 /\ AllIn(t, DIGIT)

\* The while loop of the description scan: desc_index on exit, the first
\* index >= 4 holding an anchor token, or len(parts) when there is none.
scan_description(parts) ==
    LET hit == {k \in 4..(Len(parts) - 1) : is_anchor(tok(parts, k))}
    IN  IF hit = {} THEN Len(parts) ELSE SetMin(hit)

\* " ".join(description_parts)
description_of(parts, desc_index) == join(SubSeq(parts, 5, desc_index))

\* invoice_search for the pattern (\d{8}): never extended to a ninth digit.
invoice_search_eight(line) ==
    LET hits == {p \in 1..(Len(line) - 7) : AllIn(SubSeq(line, p, p + 7), DIGIT)}
    IN  IF hits = {} THEN [found |-> FALSE, text |-> ""]
        ELSE [found |-> TRUE, text |-> SubSeq(line, SetMin(hits), SetMin(hits) + 7)]

\* re.search(r'(\d{8,9})', line): [found, text]: the leftmost run of 8
\* digits, extended to 9 when a ninth digit follows.
invoice_search(line) ==
    LET hits == {p \in 1..(Len(line) - 7) : AllIn(SubSeq(line, p, p + 7), DIGIT)}
    IN  IF hits = {} THEN [found |-> FALSE, text |-> ""]
        ELSE LET p == SetMin(hits)
                 n == IF p + 8 <= Len(line) /\ Ch(line, p + 8) \in DIGIT THEN 9 ELSE 8
             IN  [found |-> TRUE, text |-> SubSeq(line, p, p + n - 1)]

NoFields ==
    [invoice |-> "", ordered |-> 0, shipped |-> 0, wholesale |-> Zero,
     discount |-> "", mcb_percent |-> "", mcb |-> Zero]

\* The numeric conversions of one branch: "ok" with the fields, or the
\* exception the first failing conversion raises.
Converted(invoice, o, s, w, discount, mcb_percent, m) ==
    IF <<o.status, s.status, w.status, m.status>> # <<"ok", "ok", "ok", "ok">>
    THEN [status |-> "ValueError", f |-> NoFields]
    ELSE [status |-> "ok",
          f |-> [invoice |-> invoice, ordered |-> o.val, shipped |-> s.val,
                 wholesale |-> w.val, discount |-> discount,
                 mcb_percent |-> mcb_percent, mcb |-> m.val]]

\* The fallback branch: the invoice is the first 8-9 digit run of the raw
\* line, the numeric fields the tokens of what follows it.
fallback_fields(line) ==
    LET invoice_match == invoice_search(line)
    IN  IF ~invoice_match.found THEN [status |-> "drop", f |-> NoFields]
        ELSE LET invoice == invoice_match.text
                 remaining == strip(SubSeq(line, index(line, invoice) + Len(invoice),
                                           Len(line)))
                 num_parts == split(remaining)
             IN  IF Len(num_parts) >= 5
                 THEN Converted(invoice,
                                int(tok(num_parts, 0)),
                                int(tok(num_parts, 1)),
                                float(tok(num_parts, 2)),
                                tok(num_parts, 3),
                                tok(num_parts, 4),
                                IF Len(num_parts) > 5 THEN float(tok(num_parts, 5))
                                ELSE [status |-> "ok", val |-> Zero])
                 ELSE [status |-> "drop", f |-> NoFields]

\* primary_fields reading the invoice one token late.
primary_fields_shifted(parts, desc_index) ==
    LET n == Len(parts)
        ok(v) == [status |-> "ok", val |-> v]
    IN  Converted(tok(parts, desc_index + 1),
                  IF desc_index + 1 < n THEN int(tok(parts, desc_index + 1)) ELSE ok(0),
                  IF desc_index + 2 < n THEN int(tok(parts, desc_index + 2)) ELSE ok(0),
                  IF desc_index + 3 < n THEN float(tok(parts, desc_index + 3)) ELSE ok(Zero),
                  IF desc_index + 4 < n THEN tok(parts, desc_index + 4) ELSE "0%",
                  IF desc_index + 5 < n THEN tok(parts, desc_index + 5) ELSE "0%",
                  IF desc_index + 6 < n THEN float(tok(parts, desc_index + 6)) ELSE ok(Zero))

\* The positional branch: the anchor token is the invoice and the tokens
\* after it are taken in order, each with its default when absent.
primary_fields(parts, desc_index) ==
    LET n == Len(parts)
        ok(v) == [status |-> "ok", val |-> v]
    IN  Converted(tok(parts, desc_index),
                  IF desc_index + 1 < n THEN int(tok(parts, desc_index + 1)) ELSE ok(0),
                  IF desc_index + 2 < n THEN int(tok(parts, desc_index + 2)) ELSE ok(0),
                  IF desc_index + 3 < n THEN float(tok(parts, desc_index + 3)) ELSE ok(Zero),
                  IF desc_index + 4 < n THEN tok(parts, desc_index + 4) ELSE "0%",
                  IF desc_index + 5 < n THEN tok(parts, desc_index + 5) ELSE "0%",
                  IF desc_index + 6 < n THEN float(tok(parts, desc_index + 6)) ELSE ok(Zero))

\* if desc_index >= len(parts) - 5: the fallback branch is taken.
takes_fallback(parts, desc_index) == desc_index >= Len(parts) - 5

\* The fields of an item row with at least 11 tokens, by the branch taken.
row_fields(line, parts, desc_index) ==
    IF takes_fallback(parts, desc_index) THEN fallback_fields(line)
    ELSE primary_fields(parts, desc_index)

\* The list appended to main_data.
record_of(parts, desc_index, f, cid, cname, loc) ==
    <<tok(parts, 0), tok(parts, 1), tok(parts, 2) \o " " \o tok(parts, 3),
      description_of(parts, desc_index), f.invoice, f.ordered, f.shipped,
      f.wholesale, f.discount, f.mcb_percent, f.mcb, cid, cname, loc>>

\* The try block on a line starting with the sentinel, up to the append:
\* [status, parts, desc_index, f] with status "ok" (a row is appended),
\* "drop" (continue) or the exception raised.
item_row(line) ==
    LET parts == split(line)
    IN  IF Len(parts) < 11
        THEN [status |-> "drop", parts |-> parts, desc_index |-> 0, f |-> NoFields]
        ELSE LET desc_index == scan_description(parts)
                 r == row_fields(line, parts, desc_index)
             IN  [status |-> r.status, parts |-> parts, desc_index |-> desc_index,
                  f |-> r.f]

\* handler_catches for a handler written  except IndexError.
handler_catches_index_error_only(exc) == exc = "IndexError"

\* except Exception: the exceptions the handler of the try block intercepts.
handler_catches(exc) == exc \in {"ValueError", "IndexError", "TypeError"}

---------------------------------------------------------------------------
(* The scanner.  A scan state is the parse context with the table:         *)
(* [loc, cid, cname, data, raised].                                        *)

headers ==
    <<"Brand", "Product", "Unit", "Description", "Invoice", "Ordered", "Shipped",
      "Wholesale", "Discount%", "MCB%", "MCB", "Customer ID", "Customer Name",
      "Location">>

initial_context ==
    [loc |-> "", cid |-> "", cname |-> "", data |-> <<headers>>, raised |-> FALSE]

\* on_location_header with the customer context reset as well.
on_location_header_resets_customer(st, line) ==
    [st EXCEPT !.loc = line, !.cid = "", !.cname = ""]

on_location_header(st, line) == [st EXCEPT !.loc = line]

\* on_customer_header clearing the customer context on a non-match.
on_customer_header_clears(st, customer) ==
    IF customer.found
    THEN [st EXCEPT !.cid = customer.id, !.cname = strip(customer.name)]
    ELSE [st EXCEPT !.cid = "", !.cname = ""]

on_customer_header(st, customer) ==
    IF customer.found
    THEN [st EXCEPT !.cid = customer.id, !.cname = strip(customer.name)]
    ELSE st

\* on_item_row with the append placed before the conversions: a row whose
\* conversion fails leaves a partial row in the table.
on_item_row_partial(st, r) ==
    IF r.status = "drop" THEN st
    ELSE [st EXCEPT !.data = Append(@, record_of(r.parts, r.desc_index, r.f,
                                                 st.cid, st.cname, st.loc))]

on_item_row(st, r) ==
    IF r.status = "ok"
    THEN [st EXCEPT !.data = Append(@, record_of(r.parts, r.desc_index, r.f,
                                                 st.cid, st.cname, st.loc))]
    ELSE IF r.status = "drop" THEN st
    ELSE IF handler_catches(r.status) THEN st
    ELSE [st EXCEPT !.raised = TRUE]

NoMatch == [found |-> FALSE, id |-> "", name |-> ""]
NoRow == [status |-> "drop", parts |-> << >>, desc_index |-> 0, f |-> NoFields]

\* The chain of tests of the loop body on one raw line, first match wins:
\* the kind of the line with what the tests computed from it.
classify(raw) ==
    LET line == strip(raw)
        c == [kind |-> "noise", line |-> line, customer |-> NoMatch, r |-> NoRow]
    IN  IF line = "" THEN [c EXCEPT !.kind = "blank"]
        ELSE IF is_location_header(line) THEN [c EXCEPT !.kind = "location"]
        ELSE IF startswith(line, "Customer :")
             THEN [c EXCEPT !.kind = "customer", !.customer = customer_match(line)]
        ELSE IF startswith(line, "*HRMLSHRVS")
             THEN [c EXCEPT !.kind = "item", !.r = item_row(line)]
        ELSE c

\* One iteration of the for loop over the lines, on a classified line.
apply_line(st, c) ==
    IF c.kind = "location" THEN on_location_header(st, c.line)
    ELSE IF c.kind = "customer" THEN on_customer_header(st, c.customer)
    ELSE IF c.kind = "item" THEN on_item_row(st, c.r)
    ELSE st

---------------------------------------------------------------------------
(* create_summary_tables: group by a key, sum Shipped and MCB per group.   *)

\* Code-point order of the characters of the modelled text.
CharOrder ==
    "\t %*+-.0123456789:ABCDEFGHIJKLMNOPQRSTUVWXYZ[]_abcdefghijklmnopqrstuvwxyz"

Ord(c) == CHOOSE n \in 1..Len(CharOrder) : Ch(CharOrder, n) = c

\* a < b for strings.
RECURSIVE str_lt(_, _)
str_lt(a, b) ==
    IF b = "" THEN FALSE
    ELSE IF a = "" THEN TRUE
    ELSE IF Ch(a, 1) = Ch(b, 1) THEN str_lt(Tail(a), Tail(b))
    ELSE Ord(Ch(a, 1)) < Ord(Ch(b, 1))

\* k1 < k2 for key tuples of one length.
RECURSIVE key_lt(_, _)
key_lt(k1, k2) ==
    IF k1 = << >> THEN FALSE
    ELSE IF k1[1] = k2[1] THEN key_lt(Tail(k1), Tail(k2))
    ELSE str_lt(k1[1], k2[1])

\* The distinct keys in ascending order (groupby sorts its group keys).
RECURSIVE sorted_keys(_)
sorted_keys(S) ==
    IF S = {} THEN << >>
    ELSE LET least == CHOOSE x \in S : \A y \in S \ {x} : key_lt(x, y)
         IN  <<least>> \o sorted_keys(S \ {least})

RECURSIVE Pow10(_)
Pow10(n) == IF n = 0 THEN 1 ELSE 10 * Pow10(n - 1)

dec_add(a, b) ==
    LET e == IF a.e >= b.e THEN a.e ELSE b.e
    IN  Normalise([m |-> a.m * Pow10(e - a.e) + b.m * Pow10(e - b.e), e |-> e])

\* Column positions of main_data's rows (1-based places in headers).
col_product == 2
col_description == 4
col_shipped == 7
col_mcb == 11
col_customer_id == 12
col_customer_name == 13
col_location == 14

key_of(row, cols) == [j \in 1..Len(cols) |-> row[cols[j]]]

\* The rows of one group, in table order.
group_rows(rows, cols, key) == SelectSeq(rows, LAMBDA r : key_of(r, cols) = key)

RECURSIVE sum_int(_, _)
sum_int(rows, col) ==
    IF rows = << >> THEN 0 ELSE rows[1][col] + sum_int(Tail(rows), col)

RECURSIVE sum_dec(_, _)
sum_dec(rows, col) ==
    IF rows = << >> THEN Zero ELSE dec_add(rows[1][col], sum_dec(Tail(rows), col))

\* groupby_sum adding up Ordered (column 6) instead of Shipped.
groupby_sum_ordered(rows, cols) ==
    LET keys == sorted_keys({key_of(rows[j], cols) : j \in 1..Len(rows)})
    IN  [k \in 1..Len(keys) |->
            keys[k] \o <<sum_int(group_rows(rows, cols, keys[k]), 6),
                         sum_dec(group_rows(rows, cols, keys[k]), col_mcb)>>]

\* df.groupby(cols).agg({'Shipped': 'sum', 'MCB': 'sum'}).reset_index()
\* as rows  key columns, Total Items, Total MCB.
groupby_sum(rows, cols) ==
    LET keys == sorted_keys({key_of(rows[j], cols) : j \in 1..Len(rows)})
    IN  [k \in 1..Len(keys) |->
            keys[k] \o <<sum_int(group_rows(rows, cols, keys[k]), col_shipped),
                         sum_dec(group_rows(rows, cols, keys[k]), col_mcb)>>]

location_columns == <<"Location", "Total Items", "Total MCB">>
customer_columns ==
    <<"Customer ID", "Customer Name", "Location", "Total Items", "Total MCB">>
product_columns == <<"Product", "Description", "Total Items", "Total MCB">>

\* summary_table losing its header row on an empty table.
summary_table_empty_without_header(columns, data_rows, cols) ==
    IF data_rows = << >> THEN << >> ELSE <<columns>> \o groupby_sum(data_rows, cols)

summary_table(columns, data_rows, cols) == <<columns>> \o groupby_sum(data_rows, cols)

\* The three summaries of the table.  The columns Shipped and MCB hold the
\* values int() and float() gave them, which pd.to_numeric(...).astype(...)
\* leaves as they are; sums are exact (no int64 or binary rounding).
create_summary_tables(data) ==
    LET data_rows == Tail(data)
    IN  [location_summary |->
            summary_table(location_columns, data_rows, <<col_location>>),
         customer_summary |->
            summary_table(customer_columns, data_rows,
                          <<col_customer_id, col_customer_name, col_location>>),
         product_summary |->
            summary_table(product_columns, data_rows,
                          <<col_product, col_description>>)]

\* next((line for line in lines if needle in line), default)
first_line_with(ls, needle, default) ==
    LET hit == {j \in 1..Len(ls) : contains(ls[j], needle)}
    IN  IF hit = {} THEN default ELSE ls[SetMin(hit)]

---------------------------------------------------------------------------
(* Inputs.                                                                 *)

MaxLines == 3

BlankLine == "   "
BostonLine == " Boston MA "
AustinLine == "Austin TX"
TwoWordCityLine == "San Francisco CA"
AcmeLine == "Customer : [4821]- Acme Foods"
BobLine == "Customer : [77]-Bob"
BadCustomerLine == "Customer : Acme Foods"
GoodRow == "*HRMLSHRVS COCO 8OZ Coconut Yogurt Plain 12345678 100 95 4.50 10% 5% 22.50"
LongInvoiceRow == "*HRMLSHRVS LIME 8OZ Coconut Lime 1234567890 20 7 3.25 10% 5%"
EmbeddedInvoiceRow ==
    "*HRMLSHRVS COCO 8OZ Coconut Yogurt Plain X12345678 100 95 4.50 10% 5% 22.50"
ShortRow == "*HRMLSHRVS COCO 8OZ Coconut Yogurt 12345678 100 95"
NonNumericRow ==
    "*HRMLSHRVS COCO 8OZ Coconut Yogurt Plain 12345678 1OO 95 4.50 10% 5% 22.50"
NoInvoiceRow == "*HRMLSHRVS COCO 8OZ Coconut Yogurt Plain Organic Raw 100 95 4.50 10% 5%"
FewTrailingRow ==
    "*HRMLSHRVS COCO 8OZ Coconut Yogurt Plain Organic 12345678 100 95 4.50"

LineSet ==
    {BlankLine, BostonLine, AustinLine, TwoWordCityLine, AcmeLine, BobLine,
     BadCustomerLine, GoodRow, LongInvoiceRow, EmbeddedInvoiceRow, ShortRow,
     NonNumericRow, NoInvoiceRow, FewTrailingRow}

\* The classification of every input line.
Classified == [raw \in LineSet |-> classify(raw)]

process_line(st, raw) == apply_line(st, Classified[raw])

\* The for loop over a whole line sequence, from a given scan state.
RECURSIVE scan_from(_, _)
scan_from(st, ls) ==
    IF ls = << >> THEN st ELSE scan_from(process_line(st, Head(ls)), Tail(ls))

parse_lines(ls) == scan_from(initial_context, ls)

---------------------------------------------------------------------------
(* The state machine: parse_pdf_content's scan, its return, and            *)
(* create_summary_tables on the returned table.                            *)

VARIABLES
    lines,                  \* the lines of content scanned so far
    current_location,
    current_customer_id,
    current_customer_name,
    main_data,
    pc,                     \* "scan", "returned", "summarized" or "raised"
    title,
    week_ending,
    summaries,
    row,                    \* an item row handed to the two strategies
    primary,                \* what the positional strategy makes of row
    fallback                \* what the fallback strategy makes of row

scan_vars ==
    <<lines, current_location, current_customer_id, current_customer_name,
      main_data, pc, title, week_ending, summaries>>

row_vars == <<row, primary, fallback>>

vars == <<scan_vars, row_vars>>

context ==
    [loc |-> current_location, cid |-> current_customer_id,
     cname |-> current_customer_name, data |-> main_data, raised |-> FALSE]

NoSummaries ==
    [location_summary |-> << >>, customer_summary |-> << >>, product_summary |-> << >>]

NotApplied == [status |-> "none", row |-> << >>]

InitScan ==
    /\ lines = << >>
    /\ current_location = initial_context.loc
    /\ current_customer_id = initial_context.cid
    /\ current_customer_name = initial_context.cname
    /\ main_data = initial_context.data
    /\ pc = "scan"
    /\ title = ""
    /\ week_ending = ""
    /\ summaries = NoSummaries

Init ==
    /\ InitScan
    /\ row = ""
    /\ primary = NotApplied
    /\ fallback = NotApplied

\* The body of the for loop on the next line of the content (what it prints
\* on an intercepted exception is not part of the state).
Scan ==
    /\ pc = "scan"
    /\ Len(lines) < MaxLines
    /\ \E raw \in LineSet :
          LET st == process_line(context, raw)
          IN  /\ lines' = Append(lines, raw)
              /\ current_location' = st.loc
              /\ current_customer_id' = st.cid
              /\ current_customer_name' = st.cname
              /\ main_data' = st.data
              /\ pc' = IF st.raised THEN "raised" ELSE "scan"
    /\ UNCHANGED <<title, week_ending, summaries, row_vars>>

\* The content is exhausted: parse_pdf_content returns.
Return ==
    /\ pc = "scan"
    /\ pc' = "returned"
    /\ title' = first_line_with(lines, "HARMLESS HARVEST", "HARMLESS HARVEST")
    /\ week_ending' = first_line_with(lines, "Week ending", "")
    /\ UNCHANGED <<lines, current_location, current_customer_id,
                   current_customer_name, main_data, summaries, row_vars>>

\* convert_pdf_to_excel hands the table to create_summary_tables.
Summarize ==
    /\ pc = "returned"
    /\ pc' = "summarized"
    /\ summaries' = create_summary_tables(main_data)
    /\ UNCHANGED <<lines, current_location, current_customer_id,
                   current_customer_name, main_data, title, week_ending, row_vars>>

Next == Scan \/ Return \/ Summarize

Spec == Init /\ [][Next]_vars

---------------------------------------------------------------------------
(* The two decomposition strategies as functions of one item row.          *)

MaxDesc == 2

DescWords == {"Yogurt", "LOT00112233"}
Products == {"COCO", "87654321"}
Anchors ==
    {"12345", "123456", "1234567", "12345678", "123456789", "1234567890",
     "X12345678"}
Tails ==
    {<<"100", "95", "4.50", "10%", "5%", "22.50">>,
     <<"100", "95", "4.50", "10%", "5%">>,
     <<"100", "95", "4.50", "10%">>,
     <<"1OO", "95", "4.50", "10%", "5%", "22.50">>,
     <<"100", "95", "4.50", "10%", "5%", "22.50", "REF", "66554433", "1", "2",
       "3", "4", "5">>}

Descriptions == UNION {[1..n -> DescWords] : n \in 0..MaxDesc}

\* The item rows  sentinel, product, unit, description, anchor, tail.
RowSet ==
    {join(<<"*HRMLSHRVS", p, "8OZ", "Coconut">> \o d \o <<a>> \o t) :
        p \in Products, d \in Descriptions, a \in Anchors, t \in Tails}

\* What a strategy that yields the fields r makes of the row: the Record it
\* would append (under an empty context), or its failure.
strategy_result(parts, desc_index, r) ==
    IF r.status = "ok"
    THEN [status |-> "ok", row |-> record_of(parts, desc_index, r.f, "", "", "")]
    ELSE [status |-> r.status, row |-> << >>]

InitRow ==
    /\ InitScan
    /\ row \in RowSet
    /\ primary = NotApplied
    /\ fallback = NotApplied

\* The positional branch, on a row that reaches it.
ApplyPrimary ==
    /\ primary = NotApplied
    /\ LET parts == split(row)
           desc_index == scan_description(parts)
       IN  /\ Len(parts) >= 11
           /\ ~takes_fallback(parts, desc_index)
           /\ primary' = strategy_result(parts, desc_index,
                                         primary_fields(parts, desc_index))
    /\ UNCHANGED <<scan_vars, row, fallback>>

\* The fallback branch, on any row of at least 11 tokens.
ApplyFallback ==
    /\ fallback = NotApplied
    /\ LET parts == split(row)
           desc_index == scan_description(parts)
       IN  /\ Len(parts) >= 11
           /\ fallback' = strategy_result(parts, desc_index, fallback_fields(row))
    /\ UNCHANGED <<scan_vars, row, primary>>

NextRow == ApplyPrimary \/ ApplyFallback

SpecRow == InitRow /\ [][NextRow]_vars

---------------------------------------------------------------------------
(* Properties of the scan.                                                 *)

Kind(k) == Classified[lines[k]].kind
Row(k) == Classified[lines[k]].r

\* Line k is an item row that decomposes, so a Record is emitted for it.
Emitting(k) == Kind(k) = "item" /\ Row(k).status = "ok"

\* Line k is an item row that is dropped.
Dropped(k) == Kind(k) = "item" /\ Row(k).status # "ok"

\* The indices of the emitting lines, in scan order: the n-th Record of the
\* table comes from line RecordLines[n].
RecordLines == SelectSeq([k \in 1..Len(lines) |-> k], Emitting)

Records == Tail(main_data)

RemoveAt(ls, k) == SubSeq(ls, 1, k - 1) \o SubSeq(ls, k + 1, Len(ls))

\* The text of the last location header strictly before line k.
LocationBefore(k) ==
    LET hs == {j \in 1..(k - 1) : Kind(j) = "location"}
    IN  IF hs = {} THEN "" ELSE strip(lines[SetMax(hs)])

\* The id and name of the last matching customer header strictly before k.
CustomerBefore(k) ==
    LET hs == {j \in 1..(k - 1) :
                 Kind(j) = "customer" /\ Classified[lines[j]].customer.found}
    IN  IF hs = {} THEN [id |-> "", name |-> ""]
        ELSE LET m == Classified[lines[SetMax(hs)]].customer
             IN  [id |-> m.id, name |-> strip(m.name)]

\* C1: every Record carries the text of the last location header strictly
\* before its item row and the id and name of the last matching customer
\* header strictly before it (empty strings when there is none); later
\* headers do not touch it, and a header of one kind leaves the other
\* kind's context alone.
C1_ContextInheritance ==
    /\ Len(Records) = Len(RecordLines)
    /\ \A n \in 1..Len(RecordLines) :
          LET k == RecordLines[n]
              rec == Records[n]
          IN  /\ rec[col_location] = LocationBefore(k)
              /\ rec[col_customer_id] = CustomerBefore(k).id
              /\ rec[col_customer_name] = CustomerBefore(k).name

\* A customer header, then a location header, then an item row: the Record
\* has both.
C1_Witness ==
    /\ Len(lines) = 3
    /\ Kind(1) = "customer" /\ Kind(2) = "location" /\ Emitting(3)
    /\ Len(Records) = 1
    /\ Records[1][col_customer_id] = "4821"
    /\ Records[1][col_location] = "Boston MA"

\* C2: no exception escapes the scan on a malformed item row: the scan goes
\* on to the end of the input and the table holds exactly one Record per
\* item row that decomposes, the malformed rows being left out.
C2_NeverRaises ==
    /\ pc # "raised"
    /\ Len(Records) = Cardinality({k \in 1..Len(lines) : Emitting(k)})
    /\ pc = "scan" => ENABLED Return

\* The scan returned after a row with a non-numeric quantity, with the
\* Record of a later well-formed row.
C2_Witness ==
    /\ pc = "returned"
    /\ \E k \in 1..Len(lines) :
          /\ Dropped(k) /\ Row(k).status = "ValueError"
          /\ \E j \in (k + 1)..Len(lines) : Emitting(j)
    /\ Len(Records) = 1

\* C3: a dropped item row leaves the context and the table as they would be
\* had the line not been there.
C3_DroppedRowNoEffect ==
    pc # "raised" =>
        \A k \in 1..Len(lines) :
            Dropped(k) => context = parse_lines(RemoveAt(lines, k))

\* A header, a dropped row, then a row whose Record has the header's value.
C3_Witness ==
    /\ Len(lines) = 3
    /\ Kind(1) \in {"location", "customer"}
    /\ Dropped(2)
    /\ Emitting(3)
    /\ Len(Records) = 1
    /\ <<current_location, current_customer_id>> # <<"", "">>

---------------------------------------------------------------------------
(* Properties of the summaries.                                            *)

\* The sum of Shipped over the Records at the places I of the table.
RECURSIVE ShippedOver(_)
ShippedOver(I) ==
    IF I = {} THEN 0
    ELSE LET n == SetMax(I) IN Records[n][col_shipped] + ShippedOver(I \ {n})

\* The sum of Total Items over the rows of a summary table; Total Items is
\* the column before the last.
RECURSIVE TotalItemsFrom(_, _)
TotalItemsFrom(table, j) ==
    IF j > Len(table) THEN 0
    ELSE table[j][Len(table[j]) - 1] + TotalItemsFrom(table, j + 1)

\* A summary table has one row per distinct key of the Records, each with
\* the sum of Shipped of the Records of that key, and its Total Items add
\* up to the Shipped of the whole table.
SummaryCorrect(table, cols) ==
    LET nk == Len(cols)
        rows == Tail(table)
        RowKey(j) == SubSeq(rows[j], 1, nk)
        RecKey(n) == key_of(Records[n], cols)
    IN  /\ \A a, b \in 1..Len(rows) : RowKey(a) = RowKey(b) => a = b
        /\ {RowKey(j) : j \in 1..Len(rows)} = {RecKey(n) : n \in 1..Len(Records)}
        /\ \A j \in 1..Len(rows) :
              rows[j][nk + 1] = ShippedOver({n \in 1..Len(Records) : RecKey(n) = RowKey(j)})
        /\ TotalItemsFrom(table, 2) = ShippedOver(1..Len(Records))

\* C5: each of the three summaries has exactly one row per distinct key
\* tuple, Total Items is the sum of Shipped over the Records of the key, and
\* the Total Items of a summary add up to the Shipped of all Records.
C5_AggregationCorrect ==
    pc = "summarized" =>
        /\ SummaryCorrect(summaries.location_summary, <<col_location>>)
        /\ SummaryCorrect(summaries.customer_summary,
                          <<col_customer_id, col_customer_name, col_location>>)
        /\ SummaryCorrect(summaries.product_summary,
                          <<col_product, col_description>>)

\* Two Records of one location with different products: one location row
\* holding the sum of both, two product rows.
C5_Witness ==
    /\ pc = "summarized"
    /\ Len(Records) = 2
    /\ Len(summaries.location_summary) = 2
    /\ Len(summaries.product_summary) = 3
    /\ Records[1][col_shipped] # Records[2][col_shipped]
    /\ summaries.location_summary[2][2] =
          Records[1][col_shipped] + Records[2][col_shipped]

\* C6: when no line yields a Record the table is the 14-column header row
\* alone and each of the three summaries is its header row alone.
C6_EmptyInput ==
    (\A k \in 1..Len(lines) : ~Emitting(k)) =>
        /\ main_data = <<headers>>
        /\ Len(main_data[1]) = 14
        /\ pc = "returned" => ENABLED Summarize
        /\ pc = "summarized" =>
              summaries = [location_summary |-> <<location_columns>>,
                           customer_summary |-> <<customer_columns>>,
                           product_summary |-> <<product_columns>>]

\* Summaries of an input of a header, a blank line and a dropped row.
C6_Witness ==
    /\ pc = "summarized"
    /\ \E k \in 1..Len(lines) : Dropped(k)
    /\ \E k \in 1..Len(lines) : Kind(k) = "blank"
    /\ \E k \in 1..Len(lines) : Kind(k) \in {"location", "customer"}
    /\ Len(main_data) = 1
    /\ Len(summaries.location_summary) = 1

---------------------------------------------------------------------------
(* Properties of the classification and of the Records' fields.            *)

\* One or more alphabetic words followed by a two-letter uppercase code.
CityAndCode(line) ==
    LET words == split(line)
        n == Len(words)
    IN  /\ n >= 2
        /\ Len(words[n]) = 2 /\ AllIn(words[n], UPPER)
        /\ \A j \in 1..(n - 1) : AllIn(words[j], ALPHA)

\* C7: every line of alphabetic words followed by a two-letter uppercase
\* code, without the word Customer, is a location header: once scanned,
\* current_location is the trimmed text of the last such line.
C7_LocationClassification ==
    LET hs == {k \in 1..Len(lines) :
                 /\ CityAndCode(strip(lines[k]))
                 /\ ~contains(lines[k], "Customer")}
    IN  hs # {} => current_location = strip(lines[SetMax(hs)])

\* The Record at place n of the table and the decomposition it comes from.
Source(n) == Row(RecordLines[n])
FromFallback(n) == takes_fallback(Source(n).parts, Source(n).desc_index)

\* C8 as stated: every Record's invoice is a string of 6 to 9 digits.
C8_InvoiceSixToNine ==
    \A n \in 1..Len(Records) :
        /\ AllIn(Records[n][5], DIGIT)
        /\ Len(Records[n][5]) \in 6..9

\* C8 as amended: every Record's invoice is a string of digits, at least 6
\* of them, and 8 or 9 when the fallback produced the Record.
C8_InvoiceDigits ==
    /\ Len(Records) = Len(RecordLines)
    /\ \A n \in 1..Len(Records) :
          /\ AllIn(Records[n][5], DIGIT)
          /\ Len(Records[n][5]) >= 6
          /\ FromFallback(n) => Len(Records[n][5]) \in 8..9

\* The table holds a Record of the positional path with a 10-digit invoice
\* and a Record of the fallback path.
C8_Witness ==
    /\ Len(Records) = Len(RecordLines)
    /\ \E n \in 1..Len(Records) : ~FromFallback(n) /\ Len(Records[n][5]) = 10
    /\ \E n \in 1..Len(Records) : FromFallback(n)

\* The 0-based index of the token that supplies the invoice of Record n:
\* the first token in which the invoice text occurs.
InvoiceToken(n) ==
    SetMin({k \in 0..(Len(Source(n).parts) - 1) :
               contains(tok(Source(n).parts, k), Records[n][5])})

\* C9: every Record's description is the space-joined run of tokens from
\* index 4 up to the token that supplies its invoice, and so holds neither
\* the invoice token nor the numeric fields after it.
C9_DescriptionBoundary ==
    Len(Records) = Len(RecordLines) =>
        \A n \in 1..Len(Records) :
            /\ InvoiceToken(n) >= 4
            /\ Records[n][col_description] =
                  join(SubSeq(Source(n).parts, 5, InvoiceToken(n)))

\* Every Record's customer id and name are those of one customer header.
PairFromOneHeader ==
    \A n \in 1..Len(Records) :
        \/ <<Records[n][col_customer_id], Records[n][col_customer_name]>> = <<"", "">>
        \/ \E k \in 1..Len(lines) :
              /\ Kind(k) = "customer"
              /\ Classified[lines[k]].customer.found
              /\ Records[n][col_customer_id] = Classified[lines[k]].customer.id
              /\ Records[n][col_customer_name] =
                    strip(Classified[lines[k]].customer.name)

\* The classified line a Scan step has just consumed.
Scanned == Classified[lines'[Len(lines')]]

\* C10: a line starting with "Customer :" that does not match the pattern
\* changes neither the customer context, nor the location, nor the table; a
\* matching one overwrites id and name together, the name trimmed, and
\* nothing else; no Record carries the id of one header with the name of
\* another.
C10_CustomerHeader ==
    [][ /\ (Len(lines') = Len(lines) + 1 /\ startswith(Scanned.line, "Customer :")) =>
            /\ pc' = "scan"
            /\ UNCHANGED <<current_location, main_data>>
            /\ IF Scanned.customer.found
               THEN /\ current_customer_id' = Scanned.customer.id
                    /\ current_customer_name' = strip(Scanned.customer.name)
               ELSE UNCHANGED <<current_customer_id, current_customer_name>>
        /\ PairFromOneHeader' ]_vars

\* A matching header, a non-matching one, then an item row: the Record has
\* the matching header's id and trimmed name.
C10_Witness ==
    /\ Len(lines) = 3
    /\ Kind(1) = "customer" /\ Classified[lines[1]].customer.found
    /\ Kind(2) = "customer" /\ ~Classified[lines[2]].customer.found
    /\ Emitting(3)
    /\ Len(Records) = 1
    /\ Records[1][col_customer_id] = "4821"
    /\ Records[1][col_customer_name] = "Acme Foods"

---------------------------------------------------------------------------
(* Properties of the two strategies.                                       *)

\* Both strategies were run on the row and both apply: the positional one
\* found its anchor with at least 5 tokens after it, the fallback found an
\* 8-9 digit run with at least 5 tokens after it.
BothApply ==
    /\ primary.status # "none"
    /\ fallback.status \notin {"none", "drop"}

HasRunOfEight(t) ==
    \E p \in 1..(Len(t) - 7) : AllIn(SubSeq(t, p, p + 7), DIGIT)

\* The anchor token has 8 or 9 digits and no token before it holds a run of
\* 8 digits: the first 8-9 digit run of the line is the anchor token.
AnchorIsFirstRun ==
    LET parts == split(row)
        d == scan_description(parts)
    IN  /\ d < Len(parts)
        /\ Len(tok(parts, d)) \in 8..9
        /\ \A k \in 0..(d - 1) : ~HasRunOfEight(tok(parts, k))

\* C4 as stated: on every item row on which both strategies apply, they
\* produce the same Record.
C4_StrategiesAgree == BothApply => primary = fallback

\* C4 as amended: on every item row on which both strategies apply and whose
\* anchor token is the first 8-9 digit run of the line, they produce the
\* same Record.
C4_StrategiesAgreeOnFirstRun ==
    (BothApply /\ AnchorIsFirstRun) => primary = fallback

\* Both strategies produced a Record from a row with a 9-digit anchor.
C4_Witness ==
    /\ BothApply
    /\ AnchorIsFirstRun
    /\ primary.status = "ok"
    /\ fallback.status = "ok"
    /\ Len(primary.row[5]) = 9

=============================================================================
